---- MODULE Spec2Model ----
(***************************************************************************)
(* cc-fsync: periodic fleet discovery and concurrent rsync pull.           *)
(*                                                                         *)
(* The model follows the process started by `python -m cc_fsync`:          *)
(*   - the import of cc_fsync.sync (settings, startup detection, first     *)
(*     schedule registration),                                             *)
(*   - the body of cc_fsync.__main__ (second schedule registration, start  *)
(*     mode dispatch, signal handlers, main loop),                         *)
(*   - one orchestration cycle run_copy_process (get_vm_list, thread pool  *)
(*     fan-out of copy_files_from_vm, wait for all futures).               *)
(*                                                                         *)
(* The third-party calls (requests, boto3, azure SDK, schedule, os.system, *)
(* os.makedirs) are the environment: what they answer is drawn with \E at  *)
(* the place the code calls them.                                          *)
(***************************************************************************)
EXTENDS Integers, Sequences, FiniteSets, TLC

VARIABLES
    settings,       \* sync.py:82 the loaded settings (read-only after load)
    pc,             \* position of the main thread
    exit_status,    \* <<>> while the process lives, <<status>> after exit
    CLOUD_ENV,      \* sync.py:62/311 module global set by startup detection
    jobs,           \* the default scheduler's job list: next_run of each job
    runnable,       \* jobs the running run_pending() call still has to run
    now,            \* wall clock, in seconds
    should_stop,    \* __main__.py:58 cooperative stop flag
    cyc,            \* position inside run_copy_process
    enumIn,         \* what the environment answered to the last get_vm_list
    vm_list,        \* sync.py:292 local of run_copy_process
    tasks,          \* one future per entry of vm_list
    active,         \* jobs whose run_copy_process call has not returned
    cycleStart,     \* clock value when the executing cycle was entered
    everStarted,    \* a cycle has been entered at least once
    startupProbed,  \* the startup detection issued a metadata probe
    flagAtTest      \* value of should_stop read by the last loop test

vars ==
    <<settings, pc, exit_status, CLOUD_ENV, jobs, runnable, now,
      should_stop, cyc, enumIn, vm_list, tasks, active, cycleStart,
      everStarted, startupProbed, flagAtTest>>

----------------------------------------------------------------------------
(* Bounds of the model *)

\* the clock stops advancing at MaxTime
MaxTime == 4

\* intervals drawn for settings['interval'] are 1..MaxInterval
MaxInterval == 2

(* Program constants *)

\* time.sleep(1) of the main loop
SleepSeconds == 1

\* sys.exit(1) on undetectable environment
ExitFatal == 1

\* exit status of the interpreter after an uncaught exception
ExitUncaught == 1

\* sys.exit(0) of the --background parent; also the normal return of main()
ExitOk == 0

\* exit_status holds <<>> while the process lives and <<status>> once it exited
NoExit == <<>>
None == "None"

----------------------------------------------------------------------------
(* Settings *)

ssh_username == "ccuser"
ssh_key_path == "/keys/id_rsa"

StaticLists == {<<>>, <<"10.0.1.1">>, <<"10.0.1.1", "10.0.1.2">>}

\* A path is the sequence of its tokens: "/" for each separator character, and
\* one token for each maximal run of other characters.
VarLogApp == <<"/", "var", "/", "log", "/", "app">>
EtcCc == <<"/", "etc", "/", "cc">>
RemotePathLists == {<<VarLogApp>>, <<VarLogApp, EtcCc>>}

\* settings.get('base_local_dir', './')
DefaultBaseDir == <<".", "/">>

SettingsSpace ==
    [cc_vms : StaticLists, interval : 1..MaxInterval,
     remote_paths : RemotePathLists, base_local_dir : {DefaultBaseDir}]

StartModes == {"foreground", "daemon", "background"}

\* settings.get('cc_vms') is truthy
HasStaticList == settings.cc_vms # <<>>

interval == settings.interval
remote_paths == settings.remote_paths
base_local_dir == settings.base_local_dir

Target(host) ==
    [hostname |-> host, username |-> ssh_username,
     key_filename |-> ssh_key_path, remote_paths |-> remote_paths]

----------------------------------------------------------------------------
(* Local destination paths *)

\* remote_path.lstrip('/')
RECURSIVE lstrip_slash(_)
lstrip_slash(path) ==
    IF path # <<>> /\ Head(path) = "/" THEN lstrip_slash(Tail(path)) ELSE path

\* one step of posixpath.join: an absolute b replaces a; otherwise b is
\* appended, with a separator unless a is empty or ends with one
posix_join(a, b) ==
    IF b # <<>> /\ Head(b) = "/" THEN b
    ELSE IF a = <<>> \/ a[Len(a)] = "/" THEN a \o b
    ELSE a \o <<"/">> \o b

\* local_path_of without the lstrip: the remote path is joined as it is
local_path_of_no_lstrip(local_dir, hostname, remote_path) ==
    posix_join(posix_join(local_dir, <<hostname>>), remote_path)

\* local_path_of without the hostname component
local_path_of_no_host(local_dir, hostname, remote_path) ==
    posix_join(local_dir, lstrip_slash(remote_path))

\* sync.py:256 os.path.join(local_dir, vm_info['hostname'], remote_path.lstrip('/'))
local_path_of(local_dir, hostname, remote_path) ==
    posix_join(posix_join(local_dir, <<hostname>>), lstrip_slash(remote_path))

----------------------------------------------------------------------------
(* Metadata probes *)

\* One detection issues a token PUT; an AWS GET only when a token came back;
\* an Azure GET only when AWS was not detected. "NA" = request not issued.
ProbeAnswers ==
    { [token |-> TRUE,  aws_get |-> "200",  azure_get |-> "NA"] } \cup
    { [token |-> TRUE,  aws_get |-> "fail", azure_get |-> a] : a \in {"200", "fail"} } \cup
    { [token |-> FALSE, aws_get |-> "NA",   azure_get |-> a] : a \in {"200", "fail"} }

NoProbe == [token |-> FALSE, aws_get |-> "NA", azure_get |-> "NA"]

get_aws_metadata_token(p) == p.token

detect_cloud_environment(p) ==
    IF get_aws_metadata_token(p) /\ p.aws_get = "200" THEN "aws"
    ELSE IF p.azure_get = "200" THEN "azure"
    ELSE None

----------------------------------------------------------------------------
(* Enumerators *)

\* What an enumerator hands back: a list, or an exception leaving the function
Return(list) == [raised |-> FALSE, val |-> list, exc |-> "none"]
Raise(what) == [raised |-> TRUE, val |-> <<>>, exc |-> what]
Raised(r) == r.raised

\* get_static_vm_list with vm_list assigned instead of appended to in the
\* loop: only the last configured host is left
get_static_vm_list_last_only ==
    IF HasStaticList
    THEN <<Target(settings.cc_vms[Len(settings.cc_vms)])>>
    ELSE <<>>

\* sync.py:148-162
get_static_vm_list ==
    IF HasStaticList
    THEN [i \in 1..Len(settings.cc_vms) |-> Target(settings.cc_vms[i])]
    ELSE <<>>

\* The EC2 instances of the region: i1 and i2 are members of the Auto Scaling
\* Group asg_name, i3 is an instance of the same region outside the group.
AsgMembers == {"i1", "i2"}
RegionInstances == <<"i1", "i2", "i3">>
PrivateIp(id) ==
    CASE id = "i1" -> "10.0.0.1"
      [] id = "i2" -> "10.0.0.2"
      [] id = "i3" -> "10.0.0.3"
      [] id = "v1" -> "10.1.0.1"
      [] id = "v2" -> "10.1.0.2"

Range(s) == {s[i] : i \in 1..Len(s)}

\* the entries of s that satisfy Keep, in the order of s
RECURSIVE SelectIn(_, _)
SelectIn(s, keep) ==
    IF s = <<>> THEN <<>>
    ELSE IF Head(s) \in keep THEN <<Head(s)>> \o SelectIn(Tail(s), keep)
    ELSE SelectIn(Tail(s), keep)

\* Answers of the AWS APIs to one get_asg_instances call.
\*   asg: "ClientError"  describe_auto_scaling_groups raises ClientError
\*        "BotoCoreError" it raises another error (no credentials, endpoint
\*                        connection), which is no ClientError
\*        "NoGroup"       it answers with an empty AutoScalingGroups list
\*        "ok"            it answers with the group; in_service are the members
\*                        whose LifecycleState is InService
\*   ec2: the same for describe_instances ("NA" when it is not called)
\*   nic: the instances that have a network interface with
\*        Attachment.DeviceIndex = device_index (and so a PrivateIpAddress)
NoAws == [asg |-> "NA", in_service |-> {}, ec2 |-> "NA", nic |-> {}]

AwsAnswers ==
    { [asg |-> a, in_service |-> {}, ec2 |-> "NA", nic |-> {}] :
          a \in {"ClientError", "BotoCoreError", "NoGroup"} } \cup
    { [asg |-> "ok", in_service |-> s, ec2 |-> e, nic |-> {}] :
          s \in SUBSET AsgMembers, e \in {"ClientError", "BotoCoreError"} } \cup
    { [asg |-> "ok", in_service |-> s, ec2 |-> "ok", nic |-> n] :
          s \in SUBSET AsgMembers, n \in SUBSET Range(RegionInstances) }

\* ec2.describe_instances(InstanceIds=ids): an empty InstanceIds list is no
\* filter, the call then describes every instance of the region.
describe_instances(ids) ==
    IF ids = {} THEN RegionInstances ELSE SelectIn(RegionInstances, ids)

\* sync.py:165-197
get_asg_instances(a) ==
    IF a.asg = "ClientError" THEN Return(<<>>)
    ELSE IF a.asg = "BotoCoreError" THEN Raise("BotoCoreError")
    ELSE IF a.asg = "NoGroup" THEN Raise("IndexError")
    ELSE
      LET instance_ids == a.in_service IN
        IF a.ec2 = "ClientError" THEN Return(<<>>)
        ELSE IF a.ec2 = "BotoCoreError" THEN Raise("BotoCoreError")
        ELSE
          LET reservations == describe_instances(instance_ids)
              with_ip == SelectIn(reservations, a.nic)
          IN  Return([i \in 1..Len(with_ip) |-> Target(PrivateIp(with_ip[i]))])

\* Answers of the Azure APIs to one get_vmss_instances call.
\*   list: "ErrorAtCall"  virtual_machine_scale_set_vms.list raises
\*         "ErrorAtIter"  the pager it returned raises when iterated
\*         "ok"           it yields the instances of VmssInstances
\*   vm[id]: "NoIndex"   network_interfaces has no entry at device_index
\*           "NicError"  the NIC or private-IP lookup raises
\*           "NoIp"      no ip configuration carries a private address
\*           "ok"        the private IP resolves
VmssInstances == <<"v1", "v2">>
VmAnswers == {"NoIndex", "NicError", "NoIp", "ok"}
NoAzure == [list |-> "NA", vm |-> [v \in Range(VmssInstances) |-> "NA"]]

AzureAnswers ==
    { [list |-> l, vm |-> [v \in Range(VmssInstances) |-> "NA"]] :
          l \in {"ErrorAtCall", "ErrorAtIter"} } \cup
    { [list |-> "ok", vm |-> f] : f \in [Range(VmssInstances) -> VmAnswers] }

\* sync.py:213-239, the loop body over the instances still to visit
RECURSIVE vmss_loop(_, _, _)
vmss_loop(z, todo, vm_acc) ==
    IF todo = <<>> THEN Return(vm_acc)
    ELSE LET answer == z.vm[Head(todo)] IN
      IF answer = "NoIndex" THEN Raise("IndexError")
      ELSE IF answer = "NicError" THEN Raise("HttpResponseError")
      ELSE IF answer = "NoIp" THEN vmss_loop(z, Tail(todo), vm_acc)
      ELSE vmss_loop(z, Tail(todo), Append(vm_acc, Target(PrivateIp(Head(todo)))))

\* sync.py:200-241
get_vmss_instances(z) ==
    IF z.list = "ErrorAtCall" THEN Return(<<>>)
    ELSE IF z.list = "ErrorAtIter" THEN Raise("HttpResponseError")
    ELSE vmss_loop(z, VmssInstances, <<>>)

\* What the environment can answer to the calls one get_vm_list makes: no call
\* at all with a static list; otherwise the probes and then the APIs of the
\* environment the probes detect.
EnumAnswers ==
    IF HasStaticList
    THEN { [probe |-> NoProbe, aws |-> NoAws, azure |-> NoAzure] }
    ELSE { [probe |-> p, aws |-> a, azure |-> NoAzure] :
               p \in {q \in ProbeAnswers : detect_cloud_environment(q) = "aws"},
               a \in AwsAnswers } \cup
         { [probe |-> p, aws |-> NoAws, azure |-> z] :
               p \in {q \in ProbeAnswers : detect_cloud_environment(q) = "azure"},
               z \in AzureAnswers } \cup
         { [probe |-> p, aws |-> NoAws, azure |-> NoAzure] :
               p \in {q \in ProbeAnswers : detect_cloud_environment(q) = None} }

NoEnum == [probe |-> NoProbe, aws |-> NoAws, azure |-> NoAzure]

\* get_vm_list that treats an undetected environment as the startup code of
\* sync.py:313-315 does: sys.exit(1)
get_vm_list_exit_on_unknown(e) ==
    IF HasStaticList THEN Return(get_static_vm_list)
    ELSE LET cloud_env == detect_cloud_environment(e.probe) IN
      IF cloud_env = "aws" THEN get_asg_instances(e.aws)
      ELSE IF cloud_env = "azure" THEN get_vmss_instances(e.azure)
      ELSE Raise("SystemExit")

\* sync.py:273-285
get_vm_list(e) ==
    IF HasStaticList THEN Return(get_static_vm_list)
    ELSE LET cloud_env == detect_cloud_environment(e.probe) IN
      IF cloud_env = "aws" THEN get_asg_instances(e.aws)
      ELSE IF cloud_env = "azure" THEN get_vmss_instances(e.azure)
      ELSE Return(<<>>)

----------------------------------------------------------------------------
(* The schedule library's default scheduler *)

\* Job.should_run: datetime.now() >= self.next_run
should_run(j) == now >= jobs[j]

\* sorted(...) of run_pending: by next_run, ties in registration order
RECURSIVE insert_job(_, _)
insert_job(j, sorted) ==
    IF sorted = <<>> THEN <<j>>
    ELSE IF jobs[j] < jobs[Head(sorted)] THEN <<j>> \o sorted
    ELSE <<Head(sorted)>> \o insert_job(j, Tail(sorted))

RECURSIVE sorted_jobs(_)
sorted_jobs(n) ==
    IF n = 0 THEN <<>>
    ELSE IF should_run(n) THEN insert_job(n, sorted_jobs(n - 1))
    ELSE sorted_jobs(n - 1)

\* schedule.every(interval).seconds.do(run_copy_process): a new job, first due
\* one interval from now
every_seconds_do == Append(jobs, now + interval)

\* Job._schedule_next_run after the job function returned
schedule_next_run(j) == [jobs EXCEPT ![j] = now + interval]

----------------------------------------------------------------------------
(* Initial state: the interpreter starts `python -m cc_fsync [--daemon|--background]` *)

Init ==
    /\ settings \in SettingsSpace
    /\ pc = "import_sync"
    /\ exit_status = NoExit
    /\ CLOUD_ENV = "unset"
    /\ jobs = <<>>
    /\ runnable = <<>>
    /\ now = 0
    /\ should_stop = FALSE
    /\ cyc = "idle"
    /\ enumIn = NoEnum
    /\ vm_list = <<>>
    /\ tasks = <<>>
    /\ active = {}
    /\ cycleStart = 0
    /\ everStarted = FALSE
    /\ startupProbed = FALSE
    /\ flagAtTest = FALSE

cycleVars == <<cyc, enumIn, vm_list, tasks, active, cycleStart, everStarted>>

----------------------------------------------------------------------------
(* Startup *)

\* ImportSync without the exit at sync.py:313-315: the job is registered
\* whatever the detection found
ImportSyncNoExit ==
    /\ pc = "import_sync"
    /\ \E p \in ProbeAnswers :
         /\ CLOUD_ENV' = detect_cloud_environment(p)
         /\ startupProbed' = TRUE
    /\ pc' = "register_main"
    /\ jobs' = every_seconds_do
    /\ UNCHANGED <<settings, exit_status, runnable, now, should_stop, flagAtTest>>
    /\ UNCHANGED cycleVars

\* __main__.py:29 imports cc_fsync.sync, which runs sync.py:311-318: detect,
\* exit(1) when nothing was detected, else register the job.
ImportSync ==
    /\ pc = "import_sync"
    /\ \E p \in ProbeAnswers :
         LET env == detect_cloud_environment(p) IN
           /\ CLOUD_ENV' = env
           /\ startupProbed' = TRUE
           /\ IF env = None
              THEN /\ pc' = "fatal"
                   /\ exit_status' = <<ExitFatal>>
                   /\ jobs' = jobs
              ELSE /\ pc' = "register_main"
                   /\ exit_status' = exit_status
                   /\ jobs' = every_seconds_do
    /\ UNCHANGED <<settings, runnable, now, should_stop, flagAtTest>>
    /\ UNCHANGED cycleVars

\* __main__.py:52-55
RegisterMain ==
    /\ pc = "register_main"
    /\ jobs' = every_seconds_do
    /\ pc' = "dispatch"
    /\ UNCHANGED <<settings, exit_status, CLOUD_ENV, runnable, now,
                   should_stop, startupProbed, flagAtTest>>
    /\ UNCHANGED cycleVars

\* __main__.py:75-101: the command line is parsed; --background spawns a detached copy of the command line
\* and exits 0; --daemon and foreground install signal_handler and call main()
StartModeDispatch ==
    /\ pc = "dispatch"
    /\ \E start_mode \in StartModes :
         IF start_mode = "background"
         THEN pc' = "bg_exit" /\ exit_status' = <<ExitOk>>
         ELSE pc' = "loop_test" /\ exit_status' = exit_status
    /\ UNCHANGED <<settings, CLOUD_ENV, jobs, runnable, now,
                   should_stop, startupProbed, flagAtTest>>
    /\ UNCHANGED cycleVars

----------------------------------------------------------------------------
(* main(): the tick loop *)

InMainLoop == pc \in {"loop_test", "run_pending", "run_jobs", "in_job", "sleep"}

\* signal_handler that ends the process itself instead of leaving it to the
\* loop test
signal_handler_exits ==
    /\ InMainLoop
    /\ ~should_stop
    /\ should_stop' = TRUE
    /\ pc' = "stopped"
    /\ exit_status' = <<ExitOk>>
    /\ UNCHANGED <<settings, CLOUD_ENV, jobs, runnable, now, startupProbed,
                   flagAtTest>>
    /\ UNCHANGED cycleVars

\* __main__.py:61-64. The handler runs in the main thread between two of its
\* bytecodes, wherever main() is.
signal_handler ==
    /\ InMainLoop
    /\ ~should_stop
    /\ should_stop' = TRUE
    /\ UNCHANGED <<settings, pc, exit_status, CLOUD_ENV, jobs, runnable,
                   now, startupProbed, flagAtTest>>
    /\ UNCHANGED cycleVars

\* LoopTest as `while True` (the loop of sync.py:322): the flag is not read
LoopTestForever ==
    /\ pc = "loop_test"
    /\ flagAtTest' = should_stop
    /\ pc' = "run_pending"
    /\ UNCHANGED <<settings, exit_status, CLOUD_ENV, jobs, runnable, now,
                   should_stop, startupProbed>>
    /\ UNCHANGED cycleVars

\* __main__.py:69 `while not should_stop`, and :72 after the loop
LoopTest ==
    /\ pc = "loop_test"
    /\ flagAtTest' = should_stop
    /\ IF should_stop
       THEN pc' = "stopped" /\ exit_status' = <<ExitOk>>
       ELSE pc' = "run_pending" /\ exit_status' = exit_status
    /\ UNCHANGED <<settings, CLOUD_ENV, jobs, runnable, now,
                   should_stop, startupProbed>>
    /\ UNCHANGED cycleVars

\* __main__.py:70 schedule.run_pending(): collect and sort the due jobs
RunPending ==
    /\ pc = "run_pending"
    /\ runnable' = sorted_jobs(Len(jobs))
    /\ pc' = "run_jobs"
    /\ UNCHANGED <<settings, exit_status, CLOUD_ENV, jobs, now,
                   should_stop, startupProbed, flagAtTest>>
    /\ UNCHANGED cycleVars

\* run_pending has run every job it collected and returns
RunPendingReturn ==
    /\ pc = "run_jobs"
    /\ runnable = <<>>
    /\ pc' = "sleep"
    /\ UNCHANGED <<settings, exit_status, CLOUD_ENV, jobs, runnable, now,
                   should_stop, startupProbed, flagAtTest>>
    /\ UNCHANGED cycleVars

\* __main__.py:71 time.sleep(1)
Sleep ==
    /\ pc = "sleep"
    /\ now + SleepSeconds <= MaxTime
    /\ now' = now + SleepSeconds
    /\ pc' = "loop_test"
    /\ UNCHANGED <<settings, exit_status, CLOUD_ENV, jobs, runnable,
                   should_stop, startupProbed, flagAtTest>>
    /\ UNCHANGED cycleVars

----------------------------------------------------------------------------
(* run_copy_process: one orchestration cycle, run inline by run_pending *)

\* the job whose function is executing
CurrentJob == Head(runnable)

\* local_path: the local of sync.py:256; created: the directories os.makedirs
\* made for this task; dest: the destination of the rsync command in flight
NewTask ==
    [idx |-> 1, phase |-> "ready", nonzero |-> FALSE, log |-> "none",
     local_path |-> <<>>, created |-> {}, dest |-> <<>>]

\* os.makedirs(local_path, exist_ok=True): succeeds or raises OSError
MakedirsAnswers == {"ok", "OSError"}

\* exit status os.system hands back for the rsync command
RsyncStatuses == {0, 23}

AllDone == \A k \in 1..Len(tasks) : tasks[k].phase = "done"

\* ReturnToScheduler with the targets and their tasks kept in module globals
\* instead of the locals of run_copy_process
ReturnToSchedulerKeepingTargets ==
    /\ jobs' = schedule_next_run(CurrentJob)
    /\ runnable' = Tail(runnable)
    /\ active' = active \ {CurrentJob}
    /\ pc' = "run_jobs"
    /\ cyc' = "idle"
    /\ enumIn' = NoEnum
    /\ vm_list' = vm_list
    /\ tasks' = tasks
    /\ cycleStart' = 0

\* the job function returned: Job.run reschedules the job, run_pending goes on
\* with the next job it collected
ReturnToScheduler ==
    /\ jobs' = schedule_next_run(CurrentJob)
    /\ runnable' = Tail(runnable)
    /\ active' = active \ {CurrentJob}
    /\ pc' = "run_jobs"
    /\ cyc' = "idle"
    /\ enumIn' = NoEnum
    /\ vm_list' = <<>>
    /\ tasks' = <<>>
    /\ cycleStart' = 0

\* StartCycle with the job function handed to a thread of its own: the job
\* returns to the scheduler at once while its cycle goes on
StartCycleThreaded ==
    /\ pc = "run_jobs"
    /\ runnable # <<>>
    /\ jobs' = schedule_next_run(CurrentJob)
    /\ runnable' = Tail(runnable)
    /\ pc' = "run_jobs"
    /\ cyc' = "enum"
    /\ active' = active \cup {CurrentJob}
    /\ cycleStart' = now
    /\ everStarted' = TRUE
    /\ UNCHANGED <<settings, exit_status, CLOUD_ENV, now, should_stop, enumIn,
                   vm_list, tasks, startupProbed, flagAtTest>>

\* Scheduler._run_job -> Job.run -> run_copy_process() is entered
StartCycle ==
    /\ pc = "run_jobs"
    /\ runnable # <<>>
    /\ pc' = "in_job"
    /\ cyc' = "enum"
    /\ active' = active \cup {CurrentJob}
    /\ cycleStart' = now
    /\ everStarted' = TRUE
    /\ UNCHANGED <<settings, exit_status, CLOUD_ENV, jobs, runnable, now,
                   should_stop, enumIn, vm_list, tasks, startupProbed, flagAtTest>>

\* sync.py:292 vm_list = get_vm_list(); an exception it raises is caught
\* nowhere up to the interpreter
GetVmList ==
    /\ pc = "in_job"
    /\ cyc = "enum"
    /\ \E e \in EnumAnswers :
         LET r == get_vm_list(e) IN
           /\ enumIn' = e
           /\ vm_list' = r.val
           /\ IF Raised(r)
              THEN /\ cyc' = "raised"
                   /\ pc' = "crashed"
                   /\ exit_status' = <<ExitUncaught>>
              ELSE /\ cyc' = "enumerated"
                   /\ pc' = pc
                   /\ exit_status' = exit_status
    /\ UNCHANGED <<settings, CLOUD_ENV, jobs, runnable, now, should_stop,
                   tasks, active, cycleStart, everStarted, startupProbed,
                   flagAtTest>>

\* sync.py:293-295 `if not vm_list: return`
NoInstances ==
    /\ pc = "in_job"
    /\ cyc = "enumerated"
    /\ vm_list = <<>>
    /\ ReturnToScheduler
    /\ UNCHANGED <<settings, exit_status, CLOUD_ENV, now, should_stop,
                   everStarted, startupProbed, flagAtTest>>

\* sync.py:297-298 one future per vm_info; the default pool has at least five
\* workers, more than the targets of any list drawn here
SubmitAll ==
    /\ pc = "in_job"
    /\ cyc = "enumerated"
    /\ vm_list # <<>>
    /\ tasks' = [k \in 1..Len(vm_list) |-> NewTask]
    /\ cyc' = "running"
    /\ enumIn' = NoEnum
    /\ UNCHANGED <<settings, pc, exit_status, CLOUD_ENV, jobs, runnable,
                   now, should_stop, vm_list, active, cycleStart, everStarted,
                   startupProbed, flagAtTest>>

\* sync.py:254-267 for target k: next remote path, makedirs, rsync started.
\* An exception of makedirs ends the task at sync.py:269-270.
copy_files_begin(k) ==
    /\ cyc = "running"
    /\ k \in 1..Len(tasks)
    /\ tasks[k].phase = "ready"
    /\ \E mk \in MakedirsAnswers :
         LET vm_info == vm_list[k]
             remote_path == vm_info.remote_paths[tasks[k].idx]
             local_path == local_path_of(base_local_dir, vm_info.hostname, remote_path)
         IN tasks' = [tasks EXCEPT ![k] =
                     IF mk = "ok"
                     THEN [@ EXCEPT !.phase = "rsync", !.local_path = local_path,
                                    !.created = @ \cup {local_path},
                                    !.dest = local_path]
                     ELSE [@ EXCEPT !.phase = "done", !.log = "failure",
                                    !.local_path = local_path]]
    /\ UNCHANGED <<settings, pc, exit_status, CLOUD_ENV, jobs, runnable,
                   now, should_stop, cyc, enumIn, vm_list, active, cycleStart,
                   everStarted, startupProbed, flagAtTest>>

\* sync.py:267 os.system returns; its status is dropped. After the last path
\* sync.py:268 logs the success line.
copy_files_rsync_exit(k) ==
    /\ cyc = "running"
    /\ k \in 1..Len(tasks)
    /\ tasks[k].phase = "rsync"
    /\ \E status \in RsyncStatuses :
         tasks' = [tasks EXCEPT ![k] =
                     IF @.idx = Len(vm_list[k].remote_paths)
                     THEN [@ EXCEPT !.phase = "done", !.log = "success",
                                    !.nonzero = @ \/ status # 0, !.dest = <<>>]
                     ELSE [@ EXCEPT !.phase = "ready", !.idx = @ + 1,
                                    !.nonzero = @ \/ status # 0, !.dest = <<>>]]
    /\ UNCHANGED <<settings, pc, exit_status, CLOUD_ENV, jobs, runnable,
                   now, should_stop, cyc, enumIn, vm_list, active, cycleStart,
                   everStarted, startupProbed, flagAtTest>>

\* a second passes while at least one rsync is running
TransferTime ==
    /\ cyc = "running"
    /\ \E k \in 1..Len(tasks) : tasks[k].phase = "rsync"
    /\ now < MaxTime
    /\ now' = now + 1
    /\ UNCHANGED <<settings, pc, exit_status, CLOUD_ENV, jobs, runnable,
                   should_stop, startupProbed, flagAtTest>>
    /\ UNCHANGED cycleVars

\* CycleReturn that stops waiting at the first completed future
CycleReturnFirstCompleted ==
    /\ pc = "in_job"
    /\ cyc = "running"
    /\ \E k \in 1..Len(tasks) : tasks[k].phase = "done"
    /\ ReturnToScheduler
    /\ UNCHANGED <<settings, exit_status, CLOUD_ENV, now, should_stop,
                   everStarted, startupProbed, flagAtTest>>

\* sync.py:299-300 every future has completed; run_copy_process returns
CycleReturn ==
    /\ pc = "in_job"
    /\ cyc = "running"
    /\ AllDone
    /\ ReturnToScheduler
    /\ UNCHANGED <<settings, exit_status, CLOUD_ENV, now, should_stop,
                   everStarted, startupProbed, flagAtTest>>

----------------------------------------------------------------------------

\* the longest vm_list an enumerator can return here
MaxTargets == Len(RegionInstances)

Next ==
    \/ ImportSync
    \/ RegisterMain
    \/ StartModeDispatch
    \/ signal_handler
    \/ LoopTest
    \/ RunPending
    \/ RunPendingReturn
    \/ Sleep
    \/ StartCycle
    \/ GetVmList
    \/ NoInstances
    \/ SubmitAll
    \/ \E k \in 1..MaxTargets : copy_files_begin(k)
    \/ \E k \in 1..MaxTargets : copy_files_rsync_exit(k)
    \/ TransferTime
    \/ CycleReturn

Spec == Init /\ [][Next]_vars

----------------------------------------------------------------------------
(* Properties *)

Hosts(list) == {list[i].hostname : i \in 1..Len(list)}

\* target k's transfer failed: an rsync exit status was non-zero, or an
\* exception ended its task
TransferFailed(k) == tasks[k].nonzero \/ tasks[k].log = "failure"

\* target k had the transfer agent run for every one of its remote paths
AllPathsTransferred(k) ==
    /\ tasks[k].phase = "done"
    /\ tasks[k].log = "success"
    /\ tasks[k].idx = Len(vm_list[k].remote_paths)

\* C1 Failure isolation: when every task of a cycle has ended, a target k whose
\* transfer failed (non-zero rsync status or an exception) is logged as a
\* failure, and every other target that did not fail itself had all of its
\* remote paths transferred and is logged as a success.
C1_FailureIsolation ==
    (cyc = "running" /\ AllDone) =>
        \A k \in 1..Len(tasks) :
            TransferFailed(k) =>
                /\ tasks[k].log = "failure"
                /\ \A j \in 1..Len(tasks) :
                       (j # k /\ ~TransferFailed(j)) => AllPathsTransferred(j)

\* C2 No overlapping cycles: at most one run_copy_process call is executing in
\* every reachable state, and it executes inside the main thread's run_pending
\* call; a job that comes due meanwhile waits for it.
C2_NoOverlappingCycles ==
    /\ Cardinality(active) <= 1
    /\ active # {} => (pc \in {"in_job", "crashed"} /\ active = {CurrentJob})
    /\ active = {} => cyc = "idle"

\* C2 witness: a cycle has been running for longer than the interval while
\* another job of the scheduler is due.
C2_Witness ==
    /\ active # {}
    /\ cyc = "running"
    /\ now - cycleStart > interval
    /\ \E j \in 1..Len(jobs) : j \notin active /\ should_run(j)

\* C3 One cycle per interval: while the loop runs the scheduler holds exactly
\* one job for run_copy_process, and one run_pending call never has two cycles
\* to start for the same due time.
C3_OneJobPerInterval ==
    /\ InMainLoop => Len(jobs) = 1
    /\ Len(runnable) <= 1

\* C4 Static list takes precedence unconditionally: with a non-empty cc_vms no
\* metadata probe is issued at startup and the process does not take the fatal
\* exit, whatever the probes would answer.
C4_StaticPrecedence ==
    HasStaticList => (~startupProbed /\ pc # "fatal" /\ CLOUD_ENV # None)

\* C5 Fatal startup on undetectable environment: when the startup detection
\* found neither AWS nor Azure and no static list is configured, the process
\* has exited with status 1, with no job registered, no cycle entered and no
\* enumeration made, outside the main loop.
C5_FatalStartup ==
    (~HasStaticList /\ CLOUD_ENV = None) =>
        /\ pc = "fatal"
        /\ exit_status = <<ExitFatal>>
        /\ jobs = <<>>
        /\ ~everStarted
        /\ cyc = "idle"
        /\ enumIn = NoEnum
        /\ tasks = <<>>

\* C5 witness: the fatal exit taken without a static list.
C5_Witness ==
    /\ ~HasStaticList
    /\ CLOUD_ENV = None
    /\ pc = "fatal"

\* one of the provider calls of the last enumeration failed
ProviderFailure(e) ==
    \/ e.aws.asg \in {"ClientError", "BotoCoreError", "NoGroup"}
    \/ e.aws.ec2 \in {"ClientError", "BotoCoreError"}
    \/ e.azure.list \in {"ErrorAtCall", "ErrorAtIter"}
    \/ \E v \in Range(VmssInstances) : e.azure.vm[v] = "NicError"

\* C6 Enumeration never throws past its boundary: after any provider failure
\* get_vm_list has returned an empty list and no exception left it.
C6_EnumerationNeverThrows ==
    ProviderFailure(enumIn) => (cyc = "enumerated" /\ vm_list = <<>>)

\* C7 The scheduler survives every cycle: once a cycle has been entered and as
\* long as no stop is requested, the process is still in its main loop.
C7_SchedulerSurvives ==
    (everStarted /\ ~should_stop) => (InMainLoop /\ exit_status = NoExit)

\* C8 AWS enumeration with no in-service members: when describe-ASG and
\* describe-instances succeed and no member is InService, get_asg_instances
\* returns the empty list.
C8_NoInServiceMembers ==
    (enumIn.aws.asg = "ok" /\ enumIn.aws.ec2 = "ok" /\ enumIn.aws.in_service = {})
        => (cyc = "enumerated" /\ vm_list = <<>>)

\* C9 Missing interface is a skip: when the provider calls succeed, an instance
\* without an interface (or private IP) at device_index is left out and every
\* other instance of the group yields its Target. AWS: the InService members
\* (at least one); Azure: the instances of the scale set.
C9_MissingInterfaceIsSkip ==
    /\ (enumIn.aws.asg = "ok" /\ enumIn.aws.ec2 = "ok" /\ enumIn.aws.in_service # {})
           => /\ cyc = "enumerated"
              /\ Hosts(vm_list) =
                   {PrivateIp(i) : i \in enumIn.aws.in_service \cap enumIn.aws.nic}
    /\ (enumIn.azure.list = "ok" /\
        \A v \in Range(VmssInstances) : enumIn.azure.vm[v] \in {"NoIndex", "NoIp", "ok"})
           => /\ cyc = "enumerated"
              /\ Hosts(vm_list) =
                   {PrivateIp(v) : v \in {w \in Range(VmssInstances) : enumIn.azure.vm[w] = "ok"}}

\* a step that enters run_copy_process
CycleStarts == cyc = "idle" /\ cyc' = "enum"

\* a step in which the stop flag gets set
StopRequested == ~should_stop /\ should_stop'

\* C10 as claimed: once the stop flag is set no orchestration cycle is entered
\* any more, and the step that sets the flag cancels no transfer.
C10_NoCycleAfterStop ==
    [][ /\ should_stop => ~CycleStarts
        /\ StopRequested => UNCHANGED <<cyc, vm_list, tasks>> ]_vars

\* C10 Cooperative stop, amended: once the stop flag is set, the next loop test
\* leaves the loop for good, so no further run_pending call begins; a cycle is
\* entered only inside an iteration whose loop test read the flag unset (the
\* jobs due in the run_pending call already under way are still run); the step
\* that sets the flag leaves the cycle and its transfers as they are.
C10_CooperativeStop ==
    [][ /\ (pc = "loop_test" /\ should_stop) => pc' \in {"loop_test", "stopped"}
        /\ CycleStarts => ~flagAtTest
        /\ pc = "stopped" => (pc' = "stopped" /\ UNCHANGED <<cyc, tasks, runnable>>)
        /\ StopRequested => UNCHANGED <<pc, cyc, vm_list, tasks, runnable, jobs>> ]_vars

\* C10 witness: the stop flag is set while a cycle has a transfer in flight.
C10_Witness ==
    /\ should_stop
    /\ cyc = "running"
    /\ \E k \in 1..Len(tasks) : tasks[k].phase = "rsync"

----------------------------------------------------------------------------
(* One fan-out over a static list, for wider settings *)

\* The fan-out of one cycle is followed from the return of get_vm_list, in a
\* process started with a static list, for base directories, host lists and
\* remote paths of more shapes than SettingsSpace draws.
DataDir == <<"/", "data">>
BaseDirs == {DefaultBaseDir, DataDir, <<"/", "data", "/">>, <<>>}
WideStaticLists ==
    {<<"10.0.0.5">>, <<"10.0.0.5", "10.0.0.6">>, <<"10.0.0.5", "10.0.0.5">>}
WidePaths ==
    {VarLogApp, <<"/", "/", "etc">>, <<"logs">>, <<"/", "..", "/", "shared">>}
WidePathLists ==
    {<<a>> : a \in WidePaths} \cup {<<a, b>> : a \in WidePaths, b \in WidePaths}

CopySettingsSpace ==
    [cc_vms : WideStaticLists, interval : {1},
     remote_paths : WidePathLists, base_local_dir : BaseDirs]

CopyInit ==
    /\ settings \in CopySettingsSpace
    /\ pc = "in_job"
    /\ exit_status = NoExit
    /\ CLOUD_ENV \in {"aws", "azure"}
    /\ jobs = <<interval, interval>>
    /\ runnable = <<1, 2>>
    /\ now = interval
    /\ should_stop = FALSE
    /\ cyc = "enumerated"
    /\ enumIn = NoEnum
    /\ vm_list = get_vm_list(NoEnum).val
    /\ tasks = <<>>
    /\ active = {1}
    /\ cycleStart = now
    /\ everStarted = TRUE
    /\ startupProbed = TRUE
    /\ flagAtTest = FALSE

CopyNext ==
    \/ SubmitAll
    \/ \E k \in 1..MaxTargets : copy_files_begin(k)
    \/ \E k \in 1..MaxTargets : copy_files_rsync_exit(k)
    \/ CycleReturn

CopySpec == CopyInit /\ [][CopyNext]_vars

----------------------------------------------------------------------------
(* Properties of the fan-out *)

\* the index of the first token of path that is no separator (Len + 1 if none)
FirstNonSlash(path) ==
    CHOOSE i \in 1..(Len(path) + 1) :
        /\ \A j \in 1..(i - 1) : path[j] = "/"
        /\ i <= Len(path) => path[i] # "/"

\* base_dir / host / remote_path, the leading separators of remote_path left out
Destination(base, host, remote_path) ==
    LET root == IF base = <<>> \/ base[Len(base)] = "/" THEN base
                ELSE base \o <<"/">>
    IN root \o <<host, "/">> \o
         SubSeq(remote_path, FirstNonSlash(remote_path), Len(remote_path))

\* C12 Destination path: the rsync in flight for path idx of target k writes to
\* base_dir / host / remote_path with the leading separators of remote_path
\* stripped, that directory has been created by the task before, and /data,
\* 10.0.0.5, /var/log/app give /data/10.0.0.5/var/log/app.
C12_DestinationPath ==
    /\ \A k \in 1..Len(tasks) :
           tasks[k].phase = "rsync" =>
               /\ tasks[k].dest =
                      Destination(base_local_dir, vm_list[k].hostname,
                                  vm_list[k].remote_paths[tasks[k].idx])
               /\ tasks[k].dest \in tasks[k].created
    /\ local_path_of(DataDir, "10.0.0.5", VarLogApp) =
           <<"/", "data", "/", "10.0.0.5", "/", "var", "/", "log", "/", "app">>

\* C12 witness: the rsync for /var/log/app of host 10.0.0.5 under /data is in
\* flight, writing to /data/10.0.0.5/var/log/app.
C12_Witness ==
    /\ base_local_dir = DataDir
    /\ \E k \in 1..Len(tasks) :
           /\ tasks[k].phase = "rsync"
           /\ vm_list[k].hostname = "10.0.0.5"
           /\ vm_list[k].remote_paths[tasks[k].idx] = VarLogApp
           /\ tasks[k].dest =
                  <<"/", "data", "/", "10.0.0.5", "/", "var", "/", "log", "/", "app">>

\* The directory a path names: its components after "." is dropped and ".."
\* has removed the component before it.
RECURSIVE resolve(_, _)
resolve(path, acc) ==
    IF path = <<>> THEN acc
    ELSE IF Head(path) \in {"/", "."} THEN resolve(Tail(path), acc)
    ELSE IF Head(path) = ".."
         THEN resolve(Tail(path),
                      IF acc = <<>> THEN acc ELSE SubSeq(acc, 1, Len(acc) - 1))
    ELSE resolve(Tail(path), Append(acc, Head(path)))

Directory(path) == resolve(path, <<>>)

IsPrefix(a, b) == Len(a) <= Len(b) /\ SubSeq(b, 1, Len(a)) = a

\* the directories task k has created or is writing to
Written(k) == {Directory(d) : d \in tasks[k].created}

DistinctHostnames ==
    \A k, j \in 1..Len(vm_list) :
        k # j => vm_list[k].hostname # vm_list[j].hostname

NoParentComponent ==
    \A i \in 1..Len(remote_paths) :
        \A n \in 1..Len(remote_paths[i]) : remote_paths[i][n] # ".."

DisjointSubtrees ==
    \A k \in 1..Len(tasks) :
        /\ \A d \in Written(k) :
               IsPrefix(Directory(base_local_dir) \o <<vm_list[k].hostname>>, d)
        /\ \A j \in 1..Len(tasks) : j # k => Written(k) \cap Written(j) = {}

\* C18 as claimed: in a cycle whose targets have pairwise distinct hostnames no
\* two tasks create or write to the same local directory, and each task writes
\* only under base_dir/<its host>/.
C18_DisjointSubtreesAnyPath ==
    DistinctHostnames => DisjointSubtrees

\* C18 Disjoint write subtrees, amended: the same, for remote paths that have
\* no ".." component.
C18_DisjointSubtrees ==
    (DistinctHostnames /\ NoParentComponent) => DisjointSubtrees

\* C18 witness: the tasks of two targets with distinct hostnames both have an
\* rsync in flight, for remote paths without "..".
C18_Witness ==
    /\ DistinctHostnames
    /\ NoParentComponent
    /\ Len(tasks) = 2
    /\ tasks[1].phase = "rsync"
    /\ tasks[2].phase = "rsync"

----------------------------------------------------------------------------
(* Properties, continued *)

\* C11 Static enumeration: with a non-empty static host list the enumeration
\* of a cycle holds one Target per configured entry, in configuration order,
\* whose hostname is the entry and whose username, key path and remote paths
\* are the shared settings values.
C11_StaticEnumeration ==
    (HasStaticList /\ cyc = "enumerated") =>
        /\ Len(vm_list) = Len(settings.cc_vms)
        /\ \A i \in 1..Len(settings.cc_vms) :
               /\ vm_list[i].hostname = settings.cc_vms[i]
               /\ vm_list[i].username = ssh_username
               /\ vm_list[i].key_filename = ssh_key_path
               /\ vm_list[i].remote_paths = settings.remote_paths

\* C11 witness: the enumeration of a two-entry static list has returned.
C11_Witness ==
    /\ cyc = "enumerated"
    /\ Len(settings.cc_vms) = 2
    /\ Len(vm_list) = 2
    /\ vm_list[1].hostname # vm_list[2].hostname

\* C13 Per-target path sequence: a target's paths are transferred one at a time
\* in configured order (the rsync in flight is the one for path idx, after the
\* paths before it), and after a failed transfer, a non-zero rsync status
\* included, no later path of that target is transferred.
C13_FailureAbortsRemainingPaths ==
    \A k \in 1..Len(tasks) :
        /\ tasks[k].phase = "rsync" =>
               /\ tasks[k].idx \in 1..Len(vm_list[k].remote_paths)
               /\ ~tasks[k].nonzero
        /\ tasks[k].log = "failure" => tasks[k].phase = "done"

\* C14 Environment detection is startup-only: the enumeration of a cycle issues
\* no metadata probe and uses the enumerator of the environment detected at
\* startup.
C14_DetectionStartupOnly ==
    cyc \in {"enumerated", "raised"} =>
        /\ enumIn.probe = NoProbe
        /\ CLOUD_ENV = "aws" => enumIn.azure = NoAzure
        /\ CLOUD_ENV = "azure" => enumIn.aws = NoAws

\* a step in which run_copy_process returns to the scheduler
CycleFinishes == pc = "in_job" /\ pc' = "run_jobs"

\* C15 Cycle completion barrier: run_copy_process returns only when every task
\* dispatched in the cycle has ended, and while a task has not ended the cycle
\* is still executing inside the job.
C15_CompletionBarrier ==
    [][ /\ CycleFinishes => \A k \in 1..Len(tasks) : tasks[k].phase = "done"
        /\ (\E k \in 1..Len(tasks) : tasks[k].phase # "done")
               => (pc = "in_job" /\ cyc = "running" /\ active # {}) ]_vars

\* C15 witness: one task of the cycle has ended while another one still has an
\* rsync running.
C15_Witness ==
    /\ cyc = "running"
    /\ \E k \in 1..Len(tasks) : tasks[k].phase = "done"
    /\ \E k \in 1..Len(tasks) : tasks[k].phase = "rsync"

\* the state of the run loop's state machine the process is in
LifecycleState ==
    CASE pc \in {"import_sync", "register_main", "dispatch"} -> "STARTING"
      [] InMainLoop /\ ~should_stop -> "RUNNING"
      [] InMainLoop /\ should_stop -> "STOPPING"
      [] pc = "stopped" -> "STOPPED"
      [] pc = "fatal" -> "FATAL"
      [] pc = "bg_exit" -> "LAUNCHED"
      [] OTHER -> "CRASHED"

LifecycleEdges ==
    {<<"STARTING", "RUNNING">>, <<"RUNNING", "STOPPING">>,
     <<"STOPPING", "STOPPED">>, <<"STARTING", "FATAL">>}

\* C16 Run-loop lifecycle: every step keeps the lifecycle state or follows
\* STARTING -> RUNNING -> STOPPING -> STOPPED or STARTING -> fatal exit, and
\* nothing leaves STOPPED. (The exit of the --background launcher, which hands
\* the run loop to a child process, is left aside.)
C16_RunLoopLifecycle ==
    [][\/ LifecycleState' = LifecycleState
       \/ <<LifecycleState, LifecycleState'>> \in LifecycleEdges
       \/ pc' = "bg_exit"]_vars

\* the host component of the destination of an rsync command
HostOf(dest) == dest[Len(posix_join(base_local_dir, <<"host">>))]

\* C17 Cycle-local targets and strict sequencing: outside a cycle and until
\* get_vm_list has returned there are no targets and no tasks; when it has
\* returned the targets are its result and no task exists yet; afterwards there
\* is one task per target of this result, and every rsync in flight is for the
\* host of its task's target, a host of this cycle's enumeration.
C17_CycleLocalTargets ==
    /\ cyc \in {"idle", "enum", "raised"} => (vm_list = <<>> /\ tasks = <<>>)
    /\ cyc = "enumerated" =>
           (tasks = <<>> /\ vm_list = get_vm_list(enumIn).val)
    /\ cyc = "running" =>
           /\ Len(tasks) = Len(vm_list)
           /\ \A k \in 1..Len(tasks) :
                  tasks[k].phase = "rsync" =>
                      /\ HostOf(tasks[k].dest) = vm_list[k].hostname
                      /\ HostOf(tasks[k].dest) \in Hosts(vm_list)

\* C17 witness: the cycle of the second job, run after the cycle of the first
\* job has returned, has enumerated fewer instances than the region holds and
\* has an rsync in flight for one of them.
C17_Witness ==
    /\ cyc = "running"
    /\ CurrentJob = 2
    /\ ~HasStaticList
    /\ Len(vm_list) < MaxTargets
    /\ \E k \in 1..Len(tasks) :
           tasks[k].phase = "rsync" /\ HostOf(tasks[k].dest) \in Hosts(vm_list)

TransferInFlight == \E k \in 1..Len(tasks) : tasks[k].phase = "rsync"

\* C19 A stop request waits for the cycle: a step taken while an rsync has not
\* returned leaves the process inside the job function of the running cycle
\* (no return to the scheduler, no later cycle, no exit), whether the stop
\* flag is set or not; and the process gets to "stopped" only by the loop
\* test, between two cycles, with the flag set.
C19_StopWaitsForCycle ==
    [][/\ TransferInFlight =>
              /\ pc' = "in_job"
              /\ cyc' = "running"
              /\ exit_status' = NoExit
              /\ ~CycleStarts
       /\ (pc' = "stopped" /\ pc # "stopped") =>
              /\ pc = "loop_test"
              /\ should_stop
              /\ cyc = "idle"
              /\ tasks = <<>>]_vars

\* C19 witness: the stop flag is set, an rsync of the running cycle has been
\* in flight for a second or more, and the process is still in the cycle.
C19_Witness ==
    /\ should_stop
    /\ TransferInFlight
    /\ now > cycleStart
    /\ pc = "in_job"
    /\ exit_status = NoExit

\* the enumeration of the running cycle has returned, with neither metadata
\* probe answered, in a process started without a static list
Undetected ==
    /\ cyc = "enumerated"
    /\ ~HasStaticList
    /\ detect_cloud_environment(enumIn.probe) = None

\* C20 A cycle without a detected environment: when get_vm_list returns in a
\* process without a static list and neither probe has succeeded, it returns
\* the empty list and the process goes on; the cycle then ends with no task
\* and no rsync, by a return to the scheduler that reschedules the job one
\* interval ahead and keeps both jobs registered, with no exit.
C20_UndetectedCycle ==
    [][/\ ( /\ cyc = "enum"
            /\ cyc' # "enum"
            /\ ~HasStaticList
            /\ detect_cloud_environment(enumIn'.probe) = None ) =>
              /\ cyc' = "enumerated"
              /\ vm_list' = <<>>
              /\ pc' = "in_job"
              /\ exit_status' = NoExit
       /\ Undetected =>
              /\ tasks' = <<>>
              /\ exit_status' = NoExit
              /\ cyc' # cyc =>
                     /\ cyc' = "idle"
                     /\ pc' = "run_jobs"
                     /\ Len(jobs') = Len(jobs)
                     /\ jobs'[CurrentJob] = now + interval]_vars

\* C20 witness: after a startup that detected an environment, the enumeration
\* of a cycle has returned with neither probe answered.
C20_Witness ==
    /\ Undetected
    /\ CLOUD_ENV # None
    /\ startupProbed
    /\ vm_list = <<>>
    /\ pc = "in_job"

====
